---- MODULE Spec2Model ----
(***************************************************************************)
(* A model of scrape_gerrit_titles.py: one run of the script, from         *)
(* argument parsing to process exit.  Strings are sequences of character   *)
(* codes, Python's None is the value None, lists are sequences, a Python   *)
(* set is a set.  The web page, the git repository and the file system are *)
(* the environment: their answers are drawn when the script asks.          *)
(***************************************************************************)
EXTENDS Integers, Sequences, FiniteSets, TLC

\* ------------------------------------------------------------ bounds
\* The page holds at most MaxNodes matching <td> nodes.
MaxNodes == 2
\* git log lists at most MaxCommits commits.
MaxCommits == 2

\* ------------------------------------------------------------ constants
MAX_SUMMARY_LENGTH == 50

\* The separator of line.split(' ', 1) and of the f-string of the output file.
SP == 32
\* The separator of stdout.split('\n').
NL == 10

\* Python's None: a value that no list of the program equals.
None == << <<-1>> >>

\* ------------------------------------------------------------ strings
Min(a, b) == IF a <= b THEN a ELSE b

\* str.strip() and get_text(strip=True) remove leading and trailing whitespace.
IsSpace(c) == c \in {SP, NL}

Strip(s) ==
  LET kept == {i \in 1..Len(s) : ~IsSpace(s[i])}
  IN  IF kept = {} THEN <<>>
      ELSE SubSeq(s, CHOOSE i \in kept : \A j \in kept : i <= j,
                     CHOOSE i \in kept : \A j \in kept : j <= i)

\* A mutant of Truncate: the slice is one character too long.
TruncateOffByOne(s) == SubSeq(s, 1, Min(Len(s), MAX_SUMMARY_LENGTH + 1))

\* s[:MAX_SUMMARY_LENGTH]
Truncate(s) == SubSeq(s, 1, Min(Len(s), MAX_SUMMARY_LENGTH))

\* Python's < on str: the first differing code point decides, a proper prefix
\* is smaller.
StrLess(a, b) ==
  \E i \in 1..(Min(Len(a), Len(b)) + 1) :
    /\ \A j \in 1..(i - 1) : a[j] = b[j]
    /\ IF i <= Min(Len(a), Len(b)) THEN a[i] < b[i] ELSE Len(a) < Len(b)

\* Insert x into the sorted list l behind every element that is not greater.
RECURSIVE Insert(_, _)
Insert(x, l) ==
  IF l = <<>> THEN <<x>>
  ELSE IF StrLess(x, Head(l)) THEN <<x>> \o l
  ELSE <<Head(l)>> \o Insert(x, Tail(l))

RECURSIVE SortFrom(_, _)
SortFrom(l, acc) ==
  IF l = <<>> THEN acc ELSE SortFrom(Tail(l), Insert(Head(l), acc))

\* sorted(l): a new list, ascending, stable.
Sorted(l) == SortFrom(l, <<>>)

\* A mutant of ToSet: the empty title is dropped from the set.
ToSetWithoutEmpty(l) == {l[i] : i \in 1..Len(l)} \ {<<>>}

\* set(l)
ToSet(l) == {l[i] : i \in 1..Len(l)}

\* A mutant of Falsy: only None counts, an empty list passes.
IsNone(v) == v = None

\* Python's `not v` for a value that is None or a list.
Falsy(v) == v = None \/ v = <<>>

\* The first position of the character c in s, 0 when there is none.
Find(s, c) ==
  LET at == {i \in 1..Len(s) : s[i] = c}
  IN  IF at = {} THEN 0 ELSE CHOOSE i \in at : \A j \in at : i <= j

\* s.split('\n'): the pieces between the newlines, one more than there are
\* newlines (the empty string gives one empty piece).
RECURSIVE SplitLines(_)
SplitLines(s) ==
  LET n == Find(s, NL)
  IN  IF n = 0 THEN <<s>>
      ELSE <<SubSeq(s, 1, n - 1)>> \o SplitLines(SubSeq(s, n + 1, Len(s)))

\* line.split(' ', 1): at most one split, at the first space.
SplitFirstSpace(line) ==
  LET n == Find(line, SP)
  IN  IF n = 0 THEN <<line>>
      ELSE <<SubSeq(line, 1, n - 1), SubSeq(line, n + 1, Len(line))>>

\* All sequences over S of length at most n.
RECURSIVE SeqsUpTo(_, _)
SeqsUpTo(S, n) ==
  IF n = 0 THEN {<<>>}
  ELSE LET shorter == SeqsUpTo(S, n - 1)
       IN  shorter \cup {Append(q, x) : q \in {r \in shorter : Len(r) = n - 1}, x \in S}

\* ------------------------------------------------------------ environment
\* MAX_SUMMARY_LENGTH - 1 times the letter a: the common start of the long
\* titles, so that they differ only around the truncation point.
Pad == [i \in 1..(MAX_SUMMARY_LENGTH - 1) |-> 97]

\* Texts of the <a> element of a matching node: empty, " b b " (whitespace
\* around it), and a title one character longer than MAX_SUMMARY_LENGTH.
LinkTexts == {<<>>, <<SP, 98, SP, 98, SP>>, Pad \o <<98, 97>>}

\* A matching <td> node: its first nested <a>, if any, and that link's text.
TdNodes == {[link |-> FALSE, text |-> <<>>]} \cup {[link |-> TRUE, text |-> t] : t \in LinkTexts}

Docs == SeqsUpTo(TdNodes, MaxNodes)

\* What session.get and the parser can do.
FetchOutcomes == {"request_exception", "status_not_200", "parse_exception", "status_200"}

\* Commit subjects (%s): empty, "b b", and one of MAX_SUMMARY_LENGTH + 1
\* characters that agrees with the long title on the first MAX_SUMMARY_LENGTH.
Subjects == {<<>>, <<98, SP, 98>>, Pad \o <<98, 99>>}

\* Commit hashes (%H), shortened: "h1", "h2".
Hashes == {<<104, 49>>, <<104, 50>>}

Histories == SeqsUpTo(Hashes \X Subjects, MaxCommits)

\* stdout of git log --pretty=format:"%H %s": one line per commit, a newline
\* between the lines and none after the last.
RECURSIVE GitLogStdout(_)
GitLogStdout(h) ==
  IF h = <<>> THEN <<>>
  ELSE Head(h)[1] \o <<SP>> \o Head(h)[2]
       \o (IF Tail(h) = <<>> THEN <<>> ELSE <<NL>> \o GitLogStdout(Tail(h)))

\* os.path.isdir, and how each of the two git invocations ends.
\* An invocation that is never reached is "not_run".
RevParseOutcomes == {"ok", "called_process_error", "file_not_found"}
LogOutcomes == {"ok", "file_not_found", "unknown_revision", "called_process_error", "exception"}
GitEnvs ==
  {[isdir |-> FALSE, revparse |-> "not_run", log |-> "not_run"]}
  \cup {[isdir |-> TRUE, revparse |-> r, log |-> "not_run"] : r \in RevParseOutcomes \ {"ok"}}
  \cup {[isdir |-> TRUE, revparse |-> "ok", log |-> l] : l \in LogOutcomes}

\* Before get_commits_on_branch is called.
GitNotAsked == [isdir |-> TRUE, revparse |-> "not_run", log |-> "not_run"]

\* open(filename, 'w') and the writes that follow it.
IoOutcomes == {"ok", "open_error", "write_error"}

\* The state of a file that does not exist: no sequence of lines equals it.
Absent == << <<-2>> >>
\* matching_commits.txt as an earlier run left it: the line "h0 b".
PriorFile == << <<104, 48, SP, 98>> >>

\* ------------------------------------------------------------ functions
\* A mutant of ExtractTitles: a link whose text is empty yields no title.
RECURSIVE ExtractTitlesSkippingEmpty(_)
ExtractTitlesSkippingEmpty(d) ==
  IF d = <<>> THEN <<>>
  ELSE (IF Head(d).link /\ Strip(Head(d).text) # <<>>
        THEN <<Truncate(Strip(Head(d).text))>> ELSE <<>>)
       \o ExtractTitlesSkippingEmpty(Tail(d))

\* The loop over td_tags: a node with an <a> contributes the stripped,
\* truncated text of that link (a Tag is truthy whatever its text).
RECURSIVE ExtractTitles(_)
ExtractTitles(d) ==
  IF d = <<>> THEN <<>>
  ELSE (IF Head(d).link THEN <<Truncate(Strip(Head(d).text))>> ELSE <<>>)
       \o ExtractTitles(Tail(d))

\* A mutant of scrape_with_cookies: a failed request is sent a second time.
scrape_with_retry(outcome, d) ==
  CASE outcome = "request_exception" ->
         [value |-> None, msgs |-> {"attempting", "error_fetching"}, calls |-> <<"fetch", "fetch">>]
    [] outcome = "status_not_200" ->
         [value |-> None, msgs |-> {"attempting", "status_not_200"}, calls |-> <<"fetch">>]
    [] outcome = "parse_exception" ->
         [value |-> None, msgs |-> {"attempting", "request_successful", "error_parsing"}, calls |-> <<"fetch">>]
    [] OTHER ->
         [value |-> ExtractTitles(d), msgs |-> {"attempting", "request_successful"}, calls |-> <<"fetch">>]

\* scrape_with_cookies: the value returned, what is printed, the requests sent.
scrape_with_cookies(outcome, d) ==
  CASE outcome = "request_exception" ->
         [value |-> None, msgs |-> {"attempting", "error_fetching"}, calls |-> <<"fetch">>]
    [] outcome = "status_not_200" ->
         [value |-> None, msgs |-> {"attempting", "status_not_200"}, calls |-> <<"fetch">>]
    [] outcome = "parse_exception" ->
         [value |-> None, msgs |-> {"attempting", "request_successful", "error_parsing"}, calls |-> <<"fetch">>]
    [] OTHER ->
         [value |-> ExtractTitles(d), msgs |-> {"attempting", "request_successful"}, calls |-> <<"fetch">>]

\* The loop over output_lines: an empty line is passed over, a line without a
\* space is skipped with a warning, any other yields (hash, truncated summary).
RECURSIVE ParseLines(_)
ParseLines(lines) ==
  IF lines = <<>> THEN <<>>
  ELSE LET parts == SplitFirstSpace(Head(lines))
       IN  (IF Head(lines) # <<>> /\ Len(parts) = 2
            THEN << <<parts[1], Truncate(parts[2])>> >> ELSE <<>>)
           \o ParseLines(Tail(lines))

SkippedLines(lines) ==
  {i \in 1..Len(lines) : lines[i] # <<>> /\ Len(SplitFirstSpace(lines[i])) # 2}

\* get_commits_on_branch: the value returned (or the exception that leaves the
\* function), what is printed, the git invocations made.
get_commits_on_branch(env, stdout) ==
  IF ~env.isdir THEN
    [value |-> None, raised |-> FALSE, msgs |-> {"not_a_directory"}, calls |-> <<>>]
  ELSE IF env.revparse = "called_process_error" THEN
    [value |-> None, raised |-> FALSE, msgs |-> {"not_a_repository"}, calls |-> <<"rev-parse">>]
  ELSE IF env.revparse = "file_not_found" THEN
    [value |-> None, raised |-> TRUE, msgs |-> {}, calls |-> <<"rev-parse">>]
  ELSE
    CASE env.log = "ok" ->
           LET lines == SplitLines(Strip(stdout))
           IN  [value |-> ParseLines(lines), raised |-> FALSE,
                msgs |-> {"running_git"} \cup (IF SkippedLines(lines) # {} THEN {"warning_skipping_line"} ELSE {}),
                calls |-> <<"rev-parse", "log">>]
      [] env.log = "file_not_found" ->
           [value |-> None, raised |-> FALSE, msgs |-> {"running_git", "git_not_found"},
            calls |-> <<"rev-parse", "log">>]
      [] env.log = "unknown_revision" ->
           [value |-> None, raised |-> FALSE,
            msgs |-> {"running_git", "error_running_git", "branch_not_found"},
            calls |-> <<"rev-parse", "log">>]
      [] env.log = "called_process_error" ->
           [value |-> None, raised |-> FALSE, msgs |-> {"running_git", "error_running_git"},
            calls |-> <<"rev-parse", "log">>]
      [] OTHER ->
           [value |-> None, raised |-> FALSE, msgs |-> {"running_git", "unexpected_error"},
            calls |-> <<"rev-parse", "log">>]

\* A mutant of filter_titles_by_commits: a commit already matched by its
\* summary is not reported again.
RECURSIVE filter_first_per_summary(_, _)
filter_first_per_summary(scraped_titles_set, commits) ==
  IF commits = <<>> THEN <<>>
  ELSE LET c == commits[Len(commits)]
           before == SubSeq(commits, 1, Len(commits) - 1)
       IN  filter_first_per_summary(scraped_titles_set, before)
           \o (IF c[2] \in scraped_titles_set /\ ~\E i \in 1..Len(before) : before[i][2] = c[2]
               THEN <<c>> ELSE <<>>)

\* filter_titles_by_commits: the commits, in order, whose summary is in the set.
RECURSIVE filter_titles_by_commits(_, _)
filter_titles_by_commits(scraped_titles_set, commits) ==
  IF commits = <<>> THEN <<>>
  ELSE (IF Head(commits)[2] \in scraped_titles_set THEN <<Head(commits)>> ELSE <<>>)
       \o filter_titles_by_commits(scraped_titles_set, Tail(commits))

\* f"{commit_hash} {summary}\n", one per match (the newline ends the line).
FileLines(matches) == [i \in 1..Len(matches) |-> matches[i][1] \o <<SP>> \o matches[i][2]]

\* A mutant of save_matching_commits_to_file: no early return, the file is
\* opened for writing even when there is nothing to write.
save_always_opening(matches, old, io, k) ==
  CASE io = "ok" ->
         [file |-> FileLines(matches), msgs |-> {"saved"}, calls |-> <<"save", "open">>]
    [] io = "open_error" ->
         [file |-> old, msgs |-> {"error_writing"}, calls |-> <<"save", "open">>]
    [] OTHER ->
         [file |-> SubSeq(FileLines(matches), 1, Min(k, Len(matches))), msgs |-> {"error_writing"},
          calls |-> <<"save", "open">>]

\* save_matching_commits_to_file: the file afterwards, what is printed, the
\* calls made.  old is the file before; io is how open and write end; k is the
\* number of records on disk when a write fails.
save_matching_commits_to_file(matches, old, io, k) ==
  IF Falsy(matches) THEN
    [file |-> old, msgs |-> {"no_matching_file_not_created"}, calls |-> <<"save">>]
  ELSE
    CASE io = "ok" ->
           [file |-> FileLines(matches), msgs |-> {"saved"}, calls |-> <<"save", "open">>]
      [] io = "open_error" ->
           [file |-> old, msgs |-> {"error_writing"}, calls |-> <<"save", "open">>]
      [] OTHER ->
           [file |-> SubSeq(FileLines(matches), 1, k), msgs |-> {"error_writing"},
            calls |-> <<"save", "open">>]

\* ------------------------------------------------------------ state
VARIABLES
  pc,                         \* the statement of __main__ that runs next
  args,                       \* whether the command line held all four positionals
  exitCode,                   \* the exit status of the process, None while it runs
  doc,                        \* the matching <td> nodes of the page that was fetched
  gitEnv,                     \* what the Commit Lister met: directory, rev-parse, log
  scraped_titles,
  sorted_scraped_titles,
  unique_scraped_titles_set,
  repo_commits,
  matching_commits,
  file0,                      \* matching_commits.txt when the run started
  file,                       \* matching_commits.txt
  printed,                    \* the messages written to stdout and stderr
  calls                       \* the external steps taken so far, in order

vars == <<pc, args, exitCode, doc, gitEnv, scraped_titles, sorted_scraped_titles,
          unique_scraped_titles_set, repo_commits, matching_commits, file0, file,
          printed, calls>>

Init ==
  /\ pc = "parse_args"
  /\ args = "unparsed"
  /\ exitCode = None
  /\ doc = <<>>
  /\ gitEnv = GitNotAsked
  /\ scraped_titles = None
  /\ sorted_scraped_titles = None
  /\ unique_scraped_titles_set = {}
  /\ repo_commits = None
  /\ matching_commits = None
  /\ file0 \in {Absent, PriorFile}
  /\ file = file0
  /\ printed = {}
  /\ calls = <<>>

\* A mutant of Exit: sys.exit() without the code, exit status 0.
ExitWithoutCode(code) == pc' = "done" /\ exitCode' = 0

\* sys.exit(code), or the end of the script.
Exit(code) == pc' = "done" /\ exitCode' = code

\* parser.parse_args(): four positionals are required; with one missing
\* argparse prints the usage and exits with status 2.
ParseArgs ==
  /\ pc = "parse_args"
  /\ \E complete \in BOOLEAN :
       IF complete
       THEN /\ args' = "complete"
            /\ pc' = "scrape"
            /\ printed' = printed \cup {"using_cookies"}
            /\ UNCHANGED exitCode
       ELSE /\ args' = "incomplete"
            /\ Exit(2)
            /\ printed' = printed \cup {"usage_error"}
  /\ UNCHANGED <<doc, gitEnv, scraped_titles, sorted_scraped_titles,
                 unique_scraped_titles_set, repo_commits, matching_commits, file0,
                 file, calls>>

\* scraped_titles = scrape_with_cookies(SCRAPE_URL, YOUR_COOKIES)
Scrape ==
  /\ pc = "scrape"
  /\ \E outcome \in FetchOutcomes :
       \E d \in (IF outcome = "status_200" THEN Docs ELSE {<<>>}) :
         LET r == scrape_with_cookies(outcome, d)
         IN  /\ doc' = d
             /\ scraped_titles' = r.value
             /\ printed' = printed \cup r.msgs
             /\ calls' = calls \o r.calls
  /\ pc' = "check_titles"
  /\ UNCHANGED <<args, exitCode, gitEnv, sorted_scraped_titles, unique_scraped_titles_set,
                 repo_commits, matching_commits, file0, file>>

\* if not scraped_titles: ... sys.exit(1)
CheckTitles ==
  /\ pc = "check_titles"
  /\ IF Falsy(scraped_titles)
     THEN /\ Exit(1)
          /\ printed' = printed \cup {"failed_to_scrape"}
     ELSE /\ pc' = "process_titles"
          /\ printed' = printed \cup {"found_titles"}
          /\ UNCHANGED exitCode
  /\ UNCHANGED <<args, doc, gitEnv, scraped_titles, sorted_scraped_titles,
                 unique_scraped_titles_set, repo_commits, matching_commits, file0,
                 file, calls>>

\* sorted_scraped_titles = sorted(...); unique_scraped_titles_set = set(...)
ProcessTitles ==
  /\ pc = "process_titles"
  /\ sorted_scraped_titles' = Sorted(scraped_titles)
  /\ unique_scraped_titles_set' = ToSet(sorted_scraped_titles')
  /\ printed' = printed \cup {"processed_titles"}
  /\ pc' = "get_commits"
  /\ UNCHANGED <<args, exitCode, doc, gitEnv, scraped_titles, repo_commits, matching_commits,
                 file0, file, calls>>

\* repo_commits = get_commits_on_branch(args.repo_path, args.branch_name); an
\* exception that leaves the function ends the script with a traceback and
\* exit status 1.
GetCommits ==
  /\ pc = "get_commits"
  /\ \E env \in GitEnvs :
       \E h \in (IF env.log = "ok" THEN Histories ELSE {<<>>}) :
         LET r == get_commits_on_branch(env, GitLogStdout(h))
         IN  /\ gitEnv' = env
             /\ calls' = calls \o r.calls
             /\ IF r.raised
                THEN /\ Exit(1)
                     /\ printed' = printed \cup r.msgs \cup {"traceback"}
                     /\ UNCHANGED repo_commits
                ELSE /\ repo_commits' = r.value
                     /\ printed' = printed \cup r.msgs
                     /\ pc' = "check_commits"
                     /\ UNCHANGED exitCode
  /\ UNCHANGED <<args, doc, scraped_titles, sorted_scraped_titles, unique_scraped_titles_set,
                 matching_commits, file0, file>>

\* if not repo_commits: ... sys.exit(1)
CheckCommits ==
  /\ pc = "check_commits"
  /\ IF Falsy(repo_commits)
     THEN /\ Exit(1)
          /\ printed' = printed \cup {"failed_to_get_commits"}
     ELSE /\ pc' = "filter"
          /\ printed' = printed \cup {"found_commits"}
          /\ UNCHANGED exitCode
  /\ UNCHANGED <<args, doc, gitEnv, scraped_titles, sorted_scraped_titles,
                 unique_scraped_titles_set, repo_commits, matching_commits, file0,
                 file, calls>>

\* matching_commits = filter_titles_by_commits(unique_scraped_titles_set, repo_commits)
FilterTitles ==
  /\ pc = "filter"
  /\ matching_commits' = filter_titles_by_commits(unique_scraped_titles_set, repo_commits)
  /\ calls' = Append(calls, "filter")
  /\ pc' = "save"
  /\ UNCHANGED <<args, exitCode, doc, gitEnv, scraped_titles, sorted_scraped_titles,
                 unique_scraped_titles_set, repo_commits, file0, file, printed>>

\* save_matching_commits_to_file(matching_commits)
SaveMatches ==
  /\ pc = "save"
  /\ \E io \in (IF Falsy(matching_commits) THEN {"ok"} ELSE IoOutcomes) :
       \E k \in (IF io = "write_error" THEN 0..(Len(matching_commits) - 1) ELSE {0}) :
         LET r == save_matching_commits_to_file(matching_commits, file, io, k)
         IN  /\ file' = r.file
             /\ printed' = printed \cup r.msgs
             /\ calls' = calls \o r.calls
  /\ pc' = "announce"
  /\ UNCHANGED <<args, exitCode, doc, gitEnv, scraped_titles, sorted_scraped_titles,
                 unique_scraped_titles_set, repo_commits, matching_commits, file0>>

\* The last if/else of the script; falling off its end is exit status 0.
Announce ==
  /\ pc = "announce"
  /\ printed' = printed \cup (IF ~Falsy(matching_commits) THEN {"found_and_saved"}
                              ELSE {"no_matching_commits"})
  /\ Exit(0)
  /\ UNCHANGED <<args, doc, gitEnv, scraped_titles, sorted_scraped_titles,
                 unique_scraped_titles_set, repo_commits, matching_commits, file0,
                 file, calls>>

Next ==
  \/ ParseArgs
  \/ Scrape
  \/ CheckTitles
  \/ ProcessTitles
  \/ GetCommits
  \/ CheckCommits
  \/ FilterTitles
  \/ SaveMatches
  \/ Announce

Spec == Init /\ [][Next]_vars

\* ------------------------------------------------------------ properties
\* The external step x has been taken.
Called(x) == \E i \in 1..Len(calls) : calls[i] = x

\* The k-th smallest element of the set of numbers S.
Kth(S, k) == CHOOSE i \in S : Cardinality({j \in S : j <= i}) = k

\* The Commit Lister was called and met one of its failure causes.
ListerFailed ==
  /\ gitEnv # GitNotAsked
  /\ ~gitEnv.isdir \/ gitEnv.revparse # "ok" \/ gitEnv.log # "ok"

\* The scraper returned (None or a list), so scraped_titles holds its result.
ScrapeReturned == Called("fetch") /\ pc # "scrape"

\* The scraper failed or found no title.
NoTitles == scraped_titles = None \/ scraped_titles = <<>>

\* The Commit Lister returned no commit, or did not return.
NoCommits == repo_commits = None \/ repo_commits = <<>>

\* C1: once the Matcher has run, matching_commits holds exactly the commits of
\* repo_commits whose summary is in the title set, each as often as it occurs
\* and in the order of repo_commits: the k-th match is the k-th commit of the
\* list whose summary is in the set.
C1_MatcherIsOrderedFilter ==
  Called("filter") =>
    LET hits == {i \in 1..Len(repo_commits) : repo_commits[i][2] \in unique_scraped_titles_set}
    IN  /\ Len(matching_commits) = Cardinality(hits)
        /\ \A k \in 1..Len(matching_commits) :
             /\ matching_commits[k] = repo_commits[Kth(hits, k)]
             /\ matching_commits[k][2] \in unique_scraped_titles_set

\* Two commits with the same matching summary are both returned.
C1_Witness ==
  /\ Called("filter")
  /\ Len(matching_commits) = 2
  /\ matching_commits[1][2] = matching_commits[2][2]
  /\ matching_commits[1][1] # matching_commits[2][1]

C3_MatcherOnlyAfterBothInputs ==
  /\ (Called("filter") \/ Called("save")) =>
       /\ ~NoTitles
       /\ repo_commits # None
       /\ ~ListerFailed
  /\ (pc = "done" /\ args = "complete" /\ (NoTitles \/ ListerFailed)) =>
       /\ exitCode = 1
       /\ printed \cap {"failed_to_scrape", "failed_to_get_commits", "traceback"} # {}
       /\ ~Called("filter")
       /\ ~Called("save")

\* A page without a title: the run has ended with 1 before the Commit Lister.
C3_Witness ==
  /\ pc = "done"
  /\ scraped_titles = <<>>
  /\ exitCode = 1
  /\ calls = <<"fetch">>

\* C4: when the Reporter was called with no match, matching_commits.txt is as
\* it was when the run started, it was never opened, and the run ends with 0.
C4_NoMatchLeavesFile ==
  (Called("save") /\ matching_commits = <<>>) =>
    /\ file = file0
    /\ ~Called("open")
    /\ pc = "done" => exitCode = 0

\* No match, and an earlier run's file is still there at the end.
C4_Witness ==
  /\ pc = "done"
  /\ Called("save")
  /\ matching_commits = <<>>
  /\ file0 = PriorFile
  /\ file = PriorFile

\* C5, as claimed: after any failure of the Commit Lister, get_commits_on_branch
\* has returned None to its caller and no exception has escaped it.
C5_Original ==
  ListerFailed => (repo_commits = None /\ "traceback" \notin printed)

\* C6, as claimed: a failed write of the output file ends the run in an error
\* state, without the announcement that the matches were found and saved.
C6_Original ==
  "error_writing" \in printed =>
    /\ "found_and_saved" \notin printed
    /\ pc = "done" => exitCode = 1

\* C7: every title and every summary the program holds is at most
\* MAX_SUMMARY_LENGTH long and is left unchanged by a second truncation, and
\* truncating the text of a link of the page twice is truncating it once.
C7_NormalizedBoundedIdempotent ==
  LET Normal(t) == Len(t) <= MAX_SUMMARY_LENGTH /\ Truncate(t) = t
      Summaries(l) == IF l = None THEN {} ELSE {l[i][2] : i \in 1..Len(l)}
      Titles(l) == IF l = None THEN {} ELSE {l[i] : i \in 1..Len(l)}
  IN  /\ \A t \in Titles(scraped_titles) \cup Titles(sorted_scraped_titles) : Normal(t)
      /\ \A t \in unique_scraped_titles_set : Normal(t)
      /\ \A t \in Summaries(repo_commits) \cup Summaries(matching_commits) : Normal(t)
      /\ \A i \in 1..Len(doc) :
           /\ Len(Truncate(doc[i].text)) <= MAX_SUMMARY_LENGTH
           /\ Truncate(Truncate(doc[i].text)) = Truncate(doc[i].text)

\* A link text longer than MAX_SUMMARY_LENGTH was scraped, and a commit was
\* matched on a summary of exactly MAX_SUMMARY_LENGTH characters.
C7_Witness ==
  /\ Called("filter")
  /\ \E i \in 1..Len(doc) : Len(doc[i].text) > MAX_SUMMARY_LENGTH
  /\ \E k \in 1..Len(matching_commits) : Len(matching_commits[k][2]) = MAX_SUMMARY_LENGTH

\* C8: after the sort/unique step the set holds exactly the distinct scraped
\* titles, the sorted list holds the same values in non-decreasing order, and
\* the Matcher matched against that set.
C8_DedupSortKeepsMembership ==
  LET distinct == {scraped_titles[i] : i \in 1..Len(scraped_titles)}
  IN  /\ pc \in {"get_commits", "check_commits", "filter", "save", "announce"} =>
           /\ unique_scraped_titles_set = distinct
           /\ Cardinality(unique_scraped_titles_set) <= Len(scraped_titles)
           /\ {sorted_scraped_titles[i] : i \in 1..Len(sorted_scraped_titles)} = distinct
           /\ \A i, j \in 1..Len(sorted_scraped_titles) :
                i < j => ~StrLess(sorted_scraped_titles[j], sorted_scraped_titles[i])
      /\ Called("filter") =>
           {matching_commits[k] : k \in 1..Len(matching_commits)}
             = {repo_commits[i] : i \in {j \in 1..Len(repo_commits) : repo_commits[j][2] \in distinct}}

\* Two nodes with the same title: two scraped titles, one element in the set.
C8_Witness ==
  /\ pc = "announce"
  /\ Len(scraped_titles) = 2
  /\ Cardinality(unique_scraped_titles_set) = 1

\* C9, as claimed: one title per matching node with a link of non-empty text,
\* so the empty string is never among the scraped titles.
C9_Original ==
  (ScrapeReturned /\ scraped_titles # None) =>
    /\ Len(scraped_titles)
         = Cardinality({i \in 1..Len(doc) : doc[i].link /\ Strip(doc[i].text) # <<>>})
    /\ \A k \in 1..Len(scraped_titles) : scraped_titles[k] # <<>>

\* C9, amended: the scraper returns, in document order, one title per matching
\* node that contains a link, whatever the link's text (a link with empty or
\* blank text gives the empty title); a node without a link gives none.
C9_OneTitlePerLink ==
  (ScrapeReturned /\ scraped_titles # None) =>
    LET links == {i \in 1..Len(doc) : doc[i].link}
    IN  /\ Len(scraped_titles) = Cardinality(links)
        /\ \A k \in 1..Len(scraped_titles) :
             LET text == doc[Kth(links, k)].text
                 stripped == Strip(text)
             IN  /\ Len(scraped_titles[k]) = Min(Len(stripped), MAX_SUMMARY_LENGTH)
                 /\ \A c \in 1..Len(scraped_titles[k]) : scraped_titles[k][c] = stripped[c]

\* A node without a link was skipped and a link with empty text gave a title.
C9_Witness ==
  /\ ScrapeReturned
  /\ Len(doc) = 2
  /\ ~doc[1].link
  /\ doc[2].link /\ doc[2].text = <<>>
  /\ scraped_titles = << <<>> >>

\* The place of an external step in the one order the script takes them.
Rank(x) ==
  CASE x = "fetch" -> 1
    [] x = "rev-parse" -> 2
    [] x = "log" -> 3
    [] x = "filter" -> 4
    [] x = "save" -> 5
    [] OTHER -> 6

\* C10: the external steps taken so far are in the one fixed order, none of
\* them twice; git runs only after a fetch that gave titles, the Matcher only
\* after git log, and the file is opened only after the Matcher.
C10_StepsInOrderOnce ==
  /\ \A i, j \in 1..Len(calls) : i < j => Rank(calls[i]) < Rank(calls[j])
  /\ Called("rev-parse") => (Called("fetch") /\ ~NoTitles)
  /\ Called("log") => Called("rev-parse")
  /\ Called("filter") => Called("log")
  /\ Called("save") => Called("filter")
  /\ Called("open") => Called("save")

\* A complete run: every step once.
C10_Witness ==
  /\ pc = "done"
  /\ calls = <<"fetch", "rev-parse", "log", "filter", "save", "open">>

====
